---- MODULE Spec2Model ----
(***************************************************************************)
(* Nextcloud contact / calendar duplicate remover                          *)
(* (src/nextcloud_duplicate_remover.py).                                   *)
(*                                                                         *)
(* The model covers the duplicate detection of contacts and events, the    *)
(* election of the record that is kept, the deletion runs, and the         *)
(* reconciliation of the birthday calendar with the contacts' birth dates. *)
(* Python strings are TLA+ strings; a record of a fetched list is named by *)
(* its position in the list (the Python code passes the dicts around by    *)
(* reference).                                                             *)
(***************************************************************************)
EXTENDS Integers, Sequences, FiniteSets, TLC

VARIABLES
    run,          \* what main() was asked to do: "contacts", "events", "birthdays", "file"
                  \* ("text" for a file of blocks and other text);
                  \* "fetch" for a retrieval on its own
    fuzzy,        \* FUZZYWUZZY_AVAILABLE
    contacts,     \* the address book on the server, in fetch order
    events,       \* the calendar on the server, in fetch order
    birthdays,    \* (name, MM-DD) entries read from the contacts
    pc,           \* the operation that ran last
    threshold,    \* similarity_threshold of the last clustering
    dryRun,       \* dry_run of the last run
    fetched,      \* the record list the last operation worked on
    groups,       \* duplicate groups of the last clustering (lists of positions)
    survivors,    \* elected record of each group handled by the last operation
    deleteCalls,  \* positions passed to delete_contact / delete_event, in call order
    deleteFailed, \* the delete calls that raised
    createCalls,  \* birthday entries passed to _create_birthday_event, in call order
    result,       \* tuple returned by the last run
    classes,      \* result of _match_birthdays_and_events
    currentYear,  \* datetime.now().year read by _create_birthday_event, 0 before
    addCalls,     \* events passed to calendar.add_event, in call order
    argThreshold, \* args.threshold as parsed by main
    exitStatus,   \* value returned by main, -1 while it has not returned
    vcards,       \* the vCard blocks of the input file, each with the newlines after it
    fileOut,      \* text written to the output file
    fileIn,       \* text of the input file of the last file-mode run
    objects       \* the objects the server lists for a retrieval, in listing order

vars == <<run, fuzzy, contacts, events, birthdays, pc, threshold, dryRun, fetched,
          groups, survivors, deleteCalls, deleteFailed, createCalls, result, classes,
          currentYear, addCalls, argThreshold, exitStatus, vcards, fileOut,
          fileIn, objects>>

-----------------------------------------------------------------------------
(* Bounds of the model                                                     *)

MaxContacts == 3
MaxEvents == 3
MaxBirthdays == 2
MaxBirthdayEvents == 2
MaxVcards == 3
MaxObjects == 3
MaxPieces == 4

-----------------------------------------------------------------------------
(* Python string operations used by the program                            *)

UPPER == "ABCDEFGHIJKLMNOPQRSTUVWXYZÉ"
LOWER == "abcdefghijklmnopqrstuvwxyzé"
DIGITS == "0123456789"

CharAt(s, i) == SubSeq(s, i, i)

InStr(c, s) == \E i \in 1..Len(s) : CharAt(s, i) = c

LowerChar(c) ==
    IF InStr(c, UPPER)
    THEN CharAt(LOWER, CHOOSE i \in 1..Len(UPPER) : CharAt(UPPER, i) = c)
    ELSE c

\* str.lower()
RECURSIVE lower(_)
lower(s) ==
    IF Len(s) = 0 THEN "" ELSE LowerChar(CharAt(s, 1)) \o lower(SubSeq(s, 2, Len(s)))

\* str.isspace() of one character
IsSpace(c) == c = " "

\* str.isalnum() of one character
IsAlnum(c) == InStr(c, UPPER) \/ InStr(c, LOWER) \/ InStr(c, DIGITS)

RECURSIVE lstrip(_)
lstrip(s) ==
    IF Len(s) > 0 /\ IsSpace(CharAt(s, 1)) THEN lstrip(SubSeq(s, 2, Len(s))) ELSE s

RECURSIVE rstrip(_)
rstrip(s) ==
    IF Len(s) > 0 /\ IsSpace(CharAt(s, Len(s))) THEN rstrip(SubSeq(s, 1, Len(s) - 1)) ELSE s

\* str.strip()
strip(s) == rstrip(lstrip(s))

\* sub in s
Contains(sub, s) ==
    \E i \in 1..(Len(s) - Len(sub) + 1) : SubSeq(s, i, i + Len(sub) - 1) = sub

\* s.startswith(prefix)
StartsWith(s, prefix) == Len(prefix) <= Len(s) /\ SubSeq(s, 1, Len(prefix)) = prefix

Max(a, b) == IF a >= b THEN a ELSE b

\* set(list)
Range(s) == {s[i] : i \in 1..Len(s)}

-----------------------------------------------------------------------------
(* fuzz.ratio of fuzzywuzzy with python-Levenshtein: 100 * 2*M / T rounded *)
(* to the nearest integer (Python round: half to even), M the length of a  *)
(* longest common subsequence, T the total length; equal strings give 100  *)
(* and an empty string 0.                                                  *)

MaxOf(S) == CHOOSE x \in S : \A y \in S : y <= x

\* one row of the longest-common-subsequence table from the row before it:
\* the entry at j is the larger of the entry above it and of one more than the
\* entry above and to the left of a place k <= j where b holds the character c
LcsRow(c, b, prev) ==
    SubSeq([j \in 1..Len(b) |->
               MaxOf({prev[j]} \cup
                     {(IF k = 1 THEN 0 ELSE prev[k - 1]) + 1 :
                         k \in {x \in 1..j : CharAt(b, x) = c}})],
           1, Len(b))

RECURSIVE LcsRows(_, _, _, _)
LcsRows(a, b, i, prev) ==
    IF i > Len(a) THEN prev
    ELSE LcsRows(a, b, i + 1, LcsRow(CharAt(a, i), b, prev))

LcsLen(a, b) ==
    IF Len(a) = 0 \/ Len(b) = 0 THEN 0
    ELSE LcsRows(a, b, 1, SubSeq([j \in 1..Len(b) |-> 0], 1, Len(b)))[Len(b)]

\* int(round(100 * 2.0 * m / t))
RoundedPercent(m, t) ==
    LET q == (200 * m) \div t
        r == (200 * m) % t
    IN IF 2 * r < t THEN q
       ELSE IF 2 * r > t THEN q + 1
       ELSE IF q % 2 = 0 THEN q ELSE q + 1

fuzz_ratio(s1, s2) ==
    IF s1 = s2 THEN 100
    ELSE IF Len(s1) = 0 \/ Len(s2) = 0 THEN 0
    ELSE RoundedPercent(LcsLen(s1, s2), Len(s1) + Len(s2))

-----------------------------------------------------------------------------
(* Contacts                                                                *)

DefaultThreshold == 85

\* contact_info as get_all_contacts builds it: full_name ("" when the vCard
\* has no FN), lower-cased emails, cleaned phones, and the number of lines
\* of raw_data.
ContactPool ==
    {[full_name |-> n, emails |-> <<>>, phones |-> <<>>, lines |-> l] :
        n \in {"Ann Lee", "ann lea", "Anna Lea"}, l \in {4}}
    \cup
    {[full_name |-> " ", emails |-> <<>>, phones |-> <<"+3361">>, lines |-> 4],
     [full_name |-> "Ann Lee", emails |-> <<"a@x.fr">>, phones |-> <<>>, lines |-> 4],
     [full_name |-> "Ann Lee", emails |-> <<"a@x.fr", "a@x.fr">>, phones |-> <<>>,
      lines |-> 5]}
    \cup
    {[full_name |-> "", emails |-> e, phones |-> <<>>, lines |-> 4] :
        e \in {<<"a@x.fr">>, <<"a@x.fr", "b@x.fr">>, <<"b@x.fr">>}}

Thresholds == {DefaultThreshold, 100}

\* values of --threshold: argparse takes any int (type=int, default 85)
ArgThresholds == {50, DefaultThreshold, 150}

\* _are_duplicates with "similarity > threshold" as the name rule
_are_duplicates_strictly_above(contact1, contact2, th) ==
    LET emails1 == Range(contact1.emails)
        emails2 == Range(contact2.emails)
        phones1 == Range(contact1.phones)
        phones2 == Range(contact2.phones)
        name1 == strip(contact1.full_name)
        name2 == strip(contact2.full_name)
    IN IF emails1 # {} /\ emails2 # {} /\ emails1 \cap emails2 # {} THEN TRUE
       ELSE IF phones1 # {} /\ phones2 # {} /\ phones1 \cap phones2 # {} THEN TRUE
       ELSE IF name1 # "" /\ name2 # ""
            THEN fuzz_ratio(lower(name1), lower(name2)) > th
            ELSE FALSE

_are_duplicates(contact1, contact2, th) ==
    LET emails1 == Range(contact1.emails)
        emails2 == Range(contact2.emails)
        phones1 == Range(contact1.phones)
        phones2 == Range(contact2.phones)
        name1 == strip(contact1.full_name)
        name2 == strip(contact2.full_name)
    IN IF emails1 # {} /\ emails2 # {} /\ emails1 \cap emails2 # {} THEN TRUE
       ELSE IF phones1 # {} /\ phones2 # {} /\ phones1 \cap phones2 # {} THEN TRUE
       ELSE IF name1 # "" /\ name2 # ""
            THEN fuzz_ratio(lower(name1), lower(name2)) >= th
            ELSE FALSE

\* _are_duplicates over the pool, evaluated once
DuplicatePairs ==
    {<<th, c1, c2, _are_duplicates(c1, c2, th)>> :
        th \in Thresholds \cup ArgThresholds, c1 \in ContactPool, c2 \in ContactPool}

IsDuplicatePair(contact1, contact2, th) ==
    <<th, contact1, contact2, TRUE>> \in DuplicatePairs

\* fuzz.ratio of the stripped, lower-cased names of the pool, evaluated once
NameRatios ==
    {<<c1.full_name, c2.full_name,
       fuzz_ratio(lower(strip(c1.full_name)), lower(strip(c2.full_name)))>> :
        c1 \in ContactPool, c2 \in ContactPool}

NameRatio(name1, name2) ==
    (CHOOSE t \in NameRatios : t[1] = name1 /\ t[2] = name2)[3]

\* full_name.strip().lower() over the pool, evaluated once
NameKeys == {<<c.full_name, lower(strip(c.full_name))>> : c \in ContactPool}

NameKey(full_name) == (CHOOSE p \in NameKeys : p[1] = full_name)[2]

\* the inner loop without its "if j in processed: continue"
RECURSIVE ScanForAnchorIgnoringProcessed(_, _, _, _, _, _)
ScanForAnchorIgnoringProcessed(list, th, i, j, duplicates, processed) ==
    IF j > Len(list) THEN [duplicates |-> duplicates, processed |-> processed]
    ELSE IF IsDuplicatePair(list[i], list[j], th)
         THEN ScanForAnchorIgnoringProcessed(list, th, i, j + 1, Append(duplicates, j),
                                             processed \cup {j})
         ELSE ScanForAnchorIgnoringProcessed(list, th, i, j + 1, duplicates, processed)

\* the inner loop comparing contacts[j] with every member of the group so far
RECURSIVE ScanForAnchorTransitive(_, _, _, _, _, _)
ScanForAnchorTransitive(list, th, i, j, duplicates, processed) ==
    IF j > Len(list) THEN [duplicates |-> duplicates, processed |-> processed]
    ELSE IF j \in processed
         THEN ScanForAnchorTransitive(list, th, i, j + 1, duplicates, processed)
         ELSE IF \E m \in 1..Len(duplicates) :
                     IsDuplicatePair(list[duplicates[m]], list[j], th)
              THEN ScanForAnchorTransitive(list, th, i, j + 1, Append(duplicates, j),
                                           processed \cup {j})
              ELSE ScanForAnchorTransitive(list, th, i, j + 1, duplicates, processed)

\* the inner loop of find_duplicates: contacts[j] for j > i, compared with the
\* anchor contacts[i] only
RECURSIVE ScanForAnchor(_, _, _, _, _, _)
ScanForAnchor(list, th, i, j, duplicates, processed) ==
    IF j > Len(list) THEN [duplicates |-> duplicates, processed |-> processed]
    ELSE IF j \in processed
         THEN ScanForAnchor(list, th, i, j + 1, duplicates, processed)
         ELSE IF IsDuplicatePair(list[i], list[j], th)
              THEN ScanForAnchor(list, th, i, j + 1, Append(duplicates, j),
                                 processed \cup {j})
              ELSE ScanForAnchor(list, th, i, j + 1, duplicates, processed)

\* the outer loop of find_duplicates
RECURSIVE AnchorLoop(_, _, _, _, _)
AnchorLoop(list, th, i, processed, duplicate_groups) ==
    IF i > Len(list) THEN duplicate_groups
    ELSE IF i \in processed
         THEN AnchorLoop(list, th, i + 1, processed, duplicate_groups)
         ELSE LET scan == ScanForAnchor(list, th, i, i + 1, <<i>>, processed \cup {i})
              IN AnchorLoop(list, th, i + 1, scan.processed,
                            IF Len(scan.duplicates) > 1
                            THEN Append(duplicate_groups, scan.duplicates)
                            ELSE duplicate_groups)

\* (position, key) pairs in the order the first loop of _find_duplicates_simple
\* appends them to email_groups
RECURSIVE EmailPairs(_, _)
EmailPairs(list, i) ==
    IF i > Len(list) THEN <<>>
    ELSE LET mine == [k \in 1..Len(list[i].emails) |->
                         [idx |-> i, key |-> list[i].emails[k]]]
         IN SelectSeq(mine, LAMBDA p : p.key # "") \o EmailPairs(list, i + 1)

\* the same for name_groups
RECURSIVE NamePairs(_, _)
NamePairs(list, i) ==
    IF i > Len(list) THEN <<>>
    ELSE LET full_name == NameKey(list[i].full_name)
         IN (IF full_name # "" THEN <<[idx |-> i, key |-> full_name]>> ELSE <<>>)
            \o NamePairs(list, i + 1)

\* the keys of a dict in insertion order
RECURSIVE KeysInOrder(_, _)
KeysInOrder(pairs, seen) ==
    IF pairs = <<>> THEN <<>>
    ELSE IF Head(pairs).key \in seen THEN KeysInOrder(Tail(pairs), seen)
         ELSE <<Head(pairs).key>> \o KeysInOrder(Tail(pairs), seen \cup {Head(pairs).key})

\* one "for idx, contact in contacts_list" loop of _find_duplicates_simple
RECURSIVE TakeUnprocessed(_, _, _)
TakeUnprocessed(contacts_list, duplicates, processed) ==
    IF contacts_list = <<>> THEN [duplicates |-> duplicates, processed |-> processed]
    ELSE LET idx == Head(contacts_list).idx
         IN IF idx \notin processed
            THEN TakeUnprocessed(Tail(contacts_list), Append(duplicates, idx),
                                 processed \cup {idx})
            ELSE TakeUnprocessed(Tail(contacts_list), duplicates, processed)

\* "for key, contacts_list in groups.items()" of _find_duplicates_simple
RECURSIVE KeyLoop(_, _, _, _)
KeyLoop(pairs, keys, processed, duplicate_groups) ==
    IF keys = <<>> THEN [groups |-> duplicate_groups, processed |-> processed]
    ELSE LET contacts_list == SelectSeq(pairs, LAMBDA p : p.key = Head(keys))
         IN IF Len(contacts_list) > 1
            THEN LET take == TakeUnprocessed(contacts_list, <<>>, processed)
                 IN KeyLoop(pairs, Tail(keys), take.processed,
                            IF Len(take.duplicates) > 1
                            THEN Append(duplicate_groups, take.duplicates)
                            ELSE duplicate_groups)
            ELSE KeyLoop(pairs, Tail(keys), processed, duplicate_groups)

_find_duplicates_simple(list) ==
    LET email_pairs == EmailPairs(list, 1)
        name_pairs == NamePairs(list, 1)
        by_email == KeyLoop(email_pairs, KeysInOrder(email_pairs, {}), {}, <<>>)
        by_name == KeyLoop(name_pairs, KeysInOrder(name_pairs, {}),
                           by_email.processed, by_email.groups)
    IN by_name.groups

\* the groups are listed in the insertion order of the returned dict
find_duplicates(list, similarity_threshold) ==
    IF ~fuzzy THEN _find_duplicates_simple(list)
    ELSE AnchorLoop(list, similarity_threshold, 1, {}, <<>>)

\* an unstable sort: x is placed before the elements of its own score
RECURSIVE InsertBeforeEqual(_, _)
InsertBeforeEqual(sorted, x) ==
    IF sorted = <<>> THEN <<x>>
    ELSE IF Head(sorted).score > x.score
         THEN <<Head(sorted)>> \o InsertBeforeEqual(Tail(sorted), x)
         ELSE <<x>> \o sorted

\* list.sort(key=score, reverse=True) is stable: place x behind every element
\* whose score is at least its own
RECURSIVE InsertDescending(_, _)
InsertDescending(sorted, x) ==
    IF sorted = <<>> THEN <<x>>
    ELSE IF Head(sorted).score >= x.score
         THEN <<Head(sorted)>> \o InsertDescending(Tail(sorted), x)
         ELSE <<x>> \o sorted

RECURSIVE SortDescending(_, _)
SortDescending(scored, sorted) ==
    IF scored = <<>> THEN sorted
    ELSE SortDescending(Tail(scored), InsertDescending(sorted, Head(scored)))

\* the score without the 5 points of a full name
ContactScoreWithoutName(contact) ==
    (IF contact.emails # <<>> THEN Len(contact.emails) * 2 ELSE 0)
    + (IF contact.phones # <<>> THEN Len(contact.phones) * 2 ELSE 0)
    + contact.lines * 1

ContactScore(contact) ==
    (IF contact.emails # <<>> THEN Len(contact.emails) * 2 ELSE 0)
    + (IF contact.phones # <<>> THEN Len(contact.phones) * 2 ELSE 0)
    + (IF contact.full_name # "" THEN 5 ELSE 0)
    + contact.lines * 1

\* duplicates: a non-empty list of positions of list; the result is a position
choose_best_contact(list, duplicates) ==
    IF Len(duplicates) = 1 THEN duplicates[1]
    ELSE LET scored_contacts == [k \in 1..Len(duplicates) |->
                 [score |-> ContactScore(list[duplicates[k]]), item |-> duplicates[k]]]
         IN SortDescending(scored_contacts, <<>>)[1].item

-----------------------------------------------------------------------------
(* Events                                                                  *)

NoDate == [kind |-> "none"]
Date(y, m, d) == [kind |-> "date", year |-> y, month |-> m, day |-> d]
DateTime(y, m, d, h) == [kind |-> "datetime", year |-> y, month |-> m, day |-> d, hour |-> h]
DateText(t) == [kind |-> "str", text |-> t]

Digit(n) == CharAt(DIGITS, n + 1)

\* f"{n:02d}"
TwoDigits(n) == IF n < 100 THEN Digit(n \div 10) \o Digit(n % 10)
                ELSE Digit(n \div 100) \o Digit((n \div 10) % 10) \o Digit(n % 10)

FourDigits(n) == Digit(n \div 1000) \o Digit((n \div 100) % 10)
                 \o Digit((n \div 10) % 10) \o Digit(n % 10)

\* str(date) and the date part of str(datetime): YYYY-MM-DD
IsoDate(d) == FourDigits(d.year) \o "-" \o TwoDigits(d.month) \o "-" \o TwoDigits(d.day)

\* "if date1": a date or datetime is true, None and "" are false
HasDate(d) == d.kind \in {"date", "datetime"} \/ (d.kind = "str" /\ d.text # "")

\* str(date).split()[0] if hasattr(date, 'date') else str(date)[:10]
DatePart(d) ==
    IF d.kind = "datetime" THEN IsoDate(d)
    ELSE IF d.kind = "date" THEN SubSeq(IsoDate(d), 1, 10)
    ELSE SubSeq(d.text, 1, IF Len(d.text) < 10 THEN Len(d.text) ELSE 10)

\* event_info as get_all_events builds it: title and description ("" when the
\* VEVENT has none), start_date, the number of lines of raw_data and the
\* number of public attributes of the parsed VEVENT.
EventPool ==
    {[title |-> "Team Sync", description |-> "", start_date |-> d, lines |-> 6,
      props |-> 30] :
        d \in {Date(2024, 5, 12), DateTime(2024, 5, 12, 9), Date(2024, 5, 13)}}
    \cup
    {[title |-> "team synk", description |-> "", start_date |-> Date(2024, 5, 12),
      lines |-> 6, props |-> 30],
     [title |-> "team sync", description |-> "notes", start_date |-> Date(2024, 5, 12),
      lines |-> 6, props |-> 30],
     [title |-> "team sync", description |-> "", start_date |-> Date(2024, 5, 12),
      lines |-> 7, props |-> 31]}
    \cup
    {[title |-> t, description |-> "", start_date |-> DateText("2024-05-12"),
      lines |-> 6, props |-> 30] : t \in {"Gym", ""}}
    \cup
    {[title |-> "Team Sync", description |-> "", start_date |-> NoDate,
      lines |-> 6, props |-> 30]}

\* _are_events_duplicates with the dates compared for identical titles only
_are_events_duplicates_ungated(event1, event2, th, available) ==
    LET title1 == strip(event1.title)
        title2 == strip(event2.title)
        date1 == event1.start_date
        date2 == event2.start_date
        same_day == HasDate(date1) /\ HasDate(date2) /\ DatePart(date1) = DatePart(date2)
    IN IF title1 # "" /\ title2 # ""
       THEN IF lower(title1) = lower(title2) THEN same_day
            ELSE IF available /\ Len(title1) > 3 /\ Len(title2) > 3
                 THEN fuzz_ratio(lower(title1), lower(title2)) >= th
                 ELSE FALSE
       ELSE FALSE

_are_events_duplicates(event1, event2, th, available) ==
    LET title1 == strip(event1.title)
        title2 == strip(event2.title)
        date1 == event1.start_date
        date2 == event2.start_date
        same_day == HasDate(date1) /\ HasDate(date2) /\ DatePart(date1) = DatePart(date2)
    IN IF title1 # "" /\ title2 # ""
       THEN IF lower(title1) = lower(title2) THEN same_day
            ELSE IF available /\ Len(title1) > 3 /\ Len(title2) > 3
                 THEN fuzz_ratio(lower(title1), lower(title2)) >= th /\ same_day
                 ELSE FALSE
       ELSE FALSE

\* _are_events_duplicates over the pool and both values of
\* FUZZYWUZZY_AVAILABLE, evaluated once
EventDuplicatePairs ==
    {<<available, th, e1, e2, _are_events_duplicates(e1, e2, th, available)>> :
        available \in BOOLEAN, th \in Thresholds \cup ArgThresholds, e1 \in EventPool, e2 \in EventPool}

\* title.strip(), its lower-cased form and the fuzz.ratio of the lower-cased
\* forms over the pool, evaluated once
TitleKeys == {<<e.title, strip(e.title), lower(strip(e.title))>> : e \in EventPool}

TitleKey(title) == CHOOSE t \in TitleKeys : t[1] = title

TitleRatios ==
    {<<e1.title, e2.title, fuzz_ratio(lower(strip(e1.title)), lower(strip(e2.title)))>> :
        e1 \in EventPool, e2 \in EventPool}

TitleRatio(title1, title2) ==
    (CHOOSE t \in TitleRatios : t[1] = title1 /\ t[2] = title2)[3]

IsEventDuplicatePair(event1, event2, th) ==
    <<fuzzy, th, event1, event2, TRUE>> \in EventDuplicatePairs

RECURSIVE ScanForAnchorEvent(_, _, _, _, _, _)
ScanForAnchorEvent(list, th, i, j, duplicates, processed) ==
    IF j > Len(list) THEN [duplicates |-> duplicates, processed |-> processed]
    ELSE IF j \in processed
         THEN ScanForAnchorEvent(list, th, i, j + 1, duplicates, processed)
         ELSE IF IsEventDuplicatePair(list[i], list[j], th)
              THEN ScanForAnchorEvent(list, th, i, j + 1, Append(duplicates, j),
                                      processed \cup {j})
              ELSE ScanForAnchorEvent(list, th, i, j + 1, duplicates, processed)

RECURSIVE AnchorLoopEvent(_, _, _, _, _)
AnchorLoopEvent(list, th, i, processed, duplicate_groups) ==
    IF i > Len(list) THEN duplicate_groups
    ELSE IF i \in processed
         THEN AnchorLoopEvent(list, th, i + 1, processed, duplicate_groups)
         ELSE LET scan == ScanForAnchorEvent(list, th, i, i + 1, <<i>>,
                                             processed \cup {i})
              IN AnchorLoopEvent(list, th, i + 1, scan.processed,
                                 IF Len(scan.duplicates) > 1
                                 THEN Append(duplicate_groups, scan.duplicates)
                                 ELSE duplicate_groups)

find_event_duplicates(list, similarity_threshold) ==
    AnchorLoopEvent(list, similarity_threshold, 1, {}, <<>>)

\* the score of choose_best_event in tenths:
\* 0.1 * len(description) + 0.2 * len(title) + 0.5 * lines + 0.3 * properties
EventScore(event) ==
    (IF event.description # "" THEN Len(event.description) * 1 ELSE 0)
    + (IF event.title # "" THEN Len(event.title) * 2 ELSE 0)
    + event.lines * 5
    + event.props * 3

choose_best_event(list, duplicates) ==
    IF Len(duplicates) = 1 THEN duplicates[1]
    ELSE LET scored_events == [k \in 1..Len(duplicates) |->
                 [score |-> EventScore(list[duplicates[k]]), item |-> duplicates[k]]]
         IN SortDescending(scored_events, <<>>)[1].item

-----------------------------------------------------------------------------
(* Birthday calendar                                                       *)

NameSimilarity == 80

birthday_keywords ==
    <<"anniversaire", "birthday", "naissance", "date de naissance",
      "bday", "né le", "née le", "born on", "anniversary">>

non_birthday_keywords ==
    <<"réunion", "meeting", "rendez-vous", "rdv", "déjeuner", "dîner",
      "restaurant", "coupole", "déménagement", "visite", "leçon",
      "championnat", "résilier", "ramener", "manette", "cheveux",
      "barbe", "circulation", "datascientest", "surprise", "fête">>

prefixes_to_remove ==
    <<"anniversaire de ", "anniversary of ", "birthday of ",
      "anniversaire ", "birthday ", "anniversary ", "date de naissance : ">>

\* any(keyword in title for keyword in keywords)
AnyKeywordIn(keywords, title) ==
    \E k \in 1..Len(keywords) : Contains(keywords[k], title)

\* the inclusion keywords alone
_is_birthday_event_by_inclusion(event_title) ==
    AnyKeywordIn(birthday_keywords, strip(lower(event_title)))

_is_birthday_event(event_title) ==
    LET title_lower == strip(lower(event_title))
    IN IF AnyKeywordIn(non_birthday_keywords, title_lower) THEN FALSE
       ELSE AnyKeywordIn(birthday_keywords, title_lower)

\* the first prefix of the list the name starts with is removed, once
_extract_contact_name_from_birthday_event(event_title) ==
    LET name == strip(lower(event_title))
        hits == {k \in 1..Len(prefixes_to_remove) : StartsWith(name, prefixes_to_remove[k])}
    IN IF hits = {} THEN name
       ELSE LET k == CHOOSE k \in hits : \A h \in hits : k <= h
            IN strip(SubSeq(name, Len(prefixes_to_remove[k]) + 1, Len(name)))

\* ''.join(c.lower() for c in name if c.isalnum() or c.isspace()).strip()
RECURSIVE KeepAlnumSpace(_)
KeepAlnumSpace(s) ==
    IF Len(s) = 0 THEN ""
    ELSE (IF IsAlnum(CharAt(s, 1)) \/ IsSpace(CharAt(s, 1))
          THEN LowerChar(CharAt(s, 1)) ELSE "")
         \o KeepAlnumSpace(SubSeq(s, 2, Len(s)))

_names_are_similar(name1, name2, available) ==
    IF ~available THEN FALSE
    ELSE fuzz_ratio(strip(KeepAlnumSpace(name1)), strip(KeepAlnumSpace(name2)))
             >= NameSimilarity

\* "" when no MM-DD can be taken from the start date
_format_date_for_comparison(date_obj) ==
    IF ~HasDate(date_obj) THEN ""
    ELSE IF date_obj.kind \in {"date", "datetime"}
         THEN TwoDigits(date_obj.month) \o "-" \o TwoDigits(date_obj.day)
         ELSE IF Len(date_obj.text) >= 10 THEN SubSeq(date_obj.text, 6, 10) ELSE ""

\* the name test of the matching loops
NameHit(contact_name_from_event, contact_name_lower, available) ==
    \/ Contains(lower(contact_name_from_event), contact_name_lower)
    \/ Contains(contact_name_lower, lower(contact_name_from_event))
    \/ _names_are_similar(contact_name_from_event, contact_name_lower, available)

\* (name, MM-DD) entries as _get_contacts_with_birthdays returns them
BirthdayPool ==
    {[name |-> "Ann Lee", date |-> "05-12"],
     [name |-> "ann lee", date |-> "06-01"],
     [name |-> "Anna Lea", date |-> "02-29"]}

BirthdayEventPool ==
    {[title |-> "Anniversaire de Ann Lee", description |-> "", start_date |-> d,
      lines |-> 6, props |-> 30] :
        d \in {Date(2024, 5, 12), NoDate, DateText("2024-06-01")}}
    \cup
    {[title |-> "Anniversaire Surprise Ann Lee", description |-> "",
      start_date |-> Date(2024, 5, 12), lines |-> 6, props |-> 30],
     [title |-> "Ann Lee", description |-> "",
      start_date |-> Date(2024, 5, 12), lines |-> 6, props |-> 30],
     [title |-> "Birthday ann lea", description |-> "",
      start_date |-> DateTime(2023, 6, 1, 0), lines |-> 6, props |-> 30]}

\* the string work of the matching over the pools, evaluated once
BirthdayTitles == {<<e.title, _is_birthday_event(e.title)>> : e \in BirthdayEventPool}

IsBirthdayTitle(event_title) == <<event_title, TRUE>> \in BirthdayTitles

CandidateNames ==
    {<<e.title, _extract_contact_name_from_birthday_event(lower(e.title))>> :
        e \in BirthdayEventPool}

CandidateName(event_title) == (CHOOSE p \in CandidateNames : p[1] = event_title)[2]

LowerNames == {<<e.name, lower(e.name)>> : e \in BirthdayPool}

LowerName(name) == (CHOOSE p \in LowerNames : p[1] = name)[2]

ComparisonDates ==
    {<<e.start_date, _format_date_for_comparison(e.start_date)>> : e \in BirthdayEventPool}

ComparisonDate(date_obj) == (CHOOSE p \in ComparisonDates : p[1] = date_obj)[2]

NameHits ==
    {<<available, c[2], k[2], NameHit(c[2], k[2], available)>> :
        available \in BOOLEAN, c \in CandidateNames, k \in LowerNames}

IsNameHit(contact_name_from_event, contact_name_lower) ==
    <<fuzzy, contact_name_from_event, contact_name_lower, TRUE>> \in NameHits

\* contacts_dict = {name.lower(): (name, date) for name, date in entries}, as the
\* list of its items: a key keeps the place of its first insertion and the
\* value of its last
RECURSIVE DictItems(_, _)
DictItems(entries, items) ==
    IF entries = <<>> THEN items
    ELSE LET e == Head(entries)
             item == [key |-> LowerName(e.name), name |-> e.name, date |-> e.date]
         IN IF \E k \in 1..Len(items) : items[k].key = item.key
            THEN DictItems(Tail(entries),
                           [k \in 1..Len(items) |->
                               IF items[k].key = item.key THEN item ELSE items[k]])
            ELSE DictItems(Tail(entries), Append(items, item))

\* the first pass trusting the name alone, whatever the dates
RECURSIVE MatchLoopNameOnly(_, _, _, _)
MatchLoopNameOnly(items, k, contact_name_from_event, event_date) ==
    IF k > Len(items) THEN 0
    ELSE IF IsNameHit(contact_name_from_event, items[k].key) THEN k
         ELSE MatchLoopNameOnly(items, k + 1, contact_name_from_event, event_date)

\* "for contact_name_lower, (original_name, birthday_date) in contacts_dict.items()"
\* of the first pass: the place of the item the loop breaks on, 0 when it ends
\* without a match
RECURSIVE MatchLoop(_, _, _, _)
MatchLoop(items, k, contact_name_from_event, event_date) ==
    IF k > Len(items) THEN 0
    ELSE IF IsNameHit(contact_name_from_event, items[k].key)
         THEN LET event_date_str == ComparisonDate(event_date)
              IN IF event_date_str # "" /\ event_date_str = items[k].date THEN k
                 ELSE IF event_date_str = "" THEN k
                 ELSE MatchLoop(items, k + 1, contact_name_from_event, event_date)
         ELSE MatchLoop(items, k + 1, contact_name_from_event, event_date)

\* the first pass without found_match: a matched event is appended to the
\* orphans as well
RECURSIVE ClassifyLoopWithoutFoundMatch(_, _, _, _)
ClassifyLoopWithoutFoundMatch(items, list, i, acc) ==
    IF i > Len(list) THEN acc
    ELSE IF ~IsBirthdayTitle(list[i].title)
         THEN ClassifyLoopWithoutFoundMatch(items, list, i + 1,
                  [acc EXCEPT !.non_birthday = Append(@, i)])
         ELSE LET k == MatchLoop(items, 1, CandidateName(list[i].title),
                                 list[i].start_date)
              IN ClassifyLoopWithoutFoundMatch(items, list, i + 1,
                     [acc EXCEPT !.matched = IF k # 0 THEN Append(@, i) ELSE @,
                                 !.matched_with = IF k # 0 THEN Append(@, items[k])
                                                  ELSE @,
                                 !.orphan = Append(@, i)])

\* "for event in events" of the first pass
RECURSIVE ClassifyLoop(_, _, _, _)
ClassifyLoop(items, list, i, acc) ==
    IF i > Len(list) THEN acc
    ELSE IF ~IsBirthdayTitle(list[i].title)
         THEN ClassifyLoop(items, list, i + 1,
                  [acc EXCEPT !.non_birthday = Append(@, i)])
         ELSE LET contact_name_from_event == CandidateName(list[i].title)
                  k == MatchLoop(items, 1, contact_name_from_event, list[i].start_date)
              IN IF k # 0
                 THEN ClassifyLoop(items, list, i + 1,
                          [acc EXCEPT !.matched = Append(@, i),
                                      !.matched_with = Append(@, items[k])])
                 ELSE ClassifyLoop(items, list, i + 1,
                          [acc EXCEPT !.orphan = Append(@, i)])

\* the second pass: the name of the first item whose name hits, for each
\* matched event
RECURSIVE FirstNameHit(_, _, _)
FirstNameHit(items, k, contact_name_from_event) ==
    IF k > Len(items) THEN {}
    ELSE IF IsNameHit(contact_name_from_event, items[k].key) THEN {items[k].name}
         ELSE FirstNameHit(items, k + 1, contact_name_from_event)

MatchedContactNames(items, list, matched) ==
    UNION {FirstNameHit(items, 1, CandidateName(list[matched[m]].title))
           : m \in 1..Len(matched)}

_match_birthdays_and_events(contacts_with_birthdays, list) ==
    LET items == DictItems(contacts_with_birthdays, <<>>)
        first == ClassifyLoop(items, list, 1,
                     [matched |-> <<>>, matched_with |-> <<>>, orphan |-> <<>>,
                      non_birthday |-> <<>>])
        matched_contact_names == MatchedContactNames(items, list, first.matched)
    IN [matched |-> first.matched,
        matched_with |-> first.matched_with,
        orphan |-> first.orphan,
        non_birthday |-> first.non_birthday,
        missing |-> SelectSeq(contacts_with_birthdays,
                              LAMBDA e : e.name \notin matched_contact_names)]

-----------------------------------------------------------------------------
(* Runs                                                                    *)

\* all lists of at most n elements of S
ListsUpTo(S, n) == UNION {[1..k -> S] : k \in 0..n}

NoClasses == [matched |-> <<>>, matched_with |-> <<>>, orphan |-> <<>>,
              non_birthday |-> <<>>, missing |-> <<>>]

\* a total that counts the groups instead of their members
NumberOfGroups(duplicate_groups) == Len(duplicate_groups)

RECURSIVE SumOfSizes(_)
SumOfSizes(duplicate_groups) ==
    IF duplicate_groups = <<>> THEN 0
    ELSE Len(Head(duplicate_groups)) + SumOfSizes(Tail(duplicate_groups))

\* deletion loops without the "if contact != best" test
RECURSIVE DeleteOrderOfAllMembers(_, _, _)
DeleteOrderOfAllMembers(duplicate_groups, best, g) ==
    IF g > Len(duplicate_groups) THEN <<>>
    ELSE duplicate_groups[g] \o DeleteOrderOfAllMembers(duplicate_groups, best, g + 1)

\* the records the deletion loops pass to delete, in call order: every member
\* of every group that is not the group's elected record
RECURSIVE DeleteOrder(_, _, _)
DeleteOrder(duplicate_groups, best, g) ==
    IF g > Len(duplicate_groups) THEN <<>>
    ELSE SelectSeq(duplicate_groups[g], LAMBDA i : i # best[g])
         \o DeleteOrder(duplicate_groups, best, g + 1)

\* the server's list once the records at the positions in deleted are gone
RECURSIVE Remaining(_, _, _)
Remaining(list, deleted, i) ==
    IF i > Len(list) THEN <<>>
    ELSE (IF i \in deleted THEN <<>> ELSE <<list[i]>>) \o Remaining(list, deleted, i + 1)

Positions(list) == [i \in 1..Len(list) |-> i]

\* the list passed to find_duplicates / find_event_duplicates as the call
\* leaves it: the loops read contacts[i] and the slice contacts[i+1:], and
\* append the records to new lists
InputAfterClustering(list) == list

\* a selection that sorts the group it is given in place
InputReorderedInPlace(duplicates) ==
    [k \in 1..Len(duplicates) |-> duplicates[Len(duplicates) + 1 - k]]

\* the group passed to choose_best_contact / choose_best_event as the call
\* leaves it: the scores go to the new list scored_contacts, which is the
\* list that is sorted
InputAfterSelection(duplicates) == duplicates

\* a count that takes every delete call as a deletion
DeletedCountOfCalls(calls, failed) == Len(calls)

\* "if self.delete_contact(contact): deleted_count += 1" over the calls;
\* failed holds the records whose delete() raised, for which delete_contact
\* and delete_event return False
DeletedCount(calls, failed) == Len(SelectSeq(calls, LAMBDA i : i \notin failed))

\* "if dry_run: ... return" before the deletion loop: the records the run
\* passes to delete
DeleteCallsIgnoringDryRun(dry_run, calls) == calls

DeleteCallsOf(dry_run, calls) == IF dry_run THEN <<>> ELSE calls

\* "for event in orphan_birthday_events" of sync_birthday_calendar
EventsToDeleteWithNonBirthday(m) == m.orphan \o m.non_birthday

EventsToDelete(m) == m.orphan

\* the years datetime.now() may fall in: a leap year and a common year
Years == {2024, 2025}

IsLeapYear(y) == (y % 4 = 0 /\ y % 100 # 0) \/ y % 400 = 0

DaysInMonth(y, month) ==
    IF month = 2 THEN (IF IsLeapYear(y) THEN 29 ELSE 28)
    ELSE IF month \in {4, 6, 9, 11} THEN 30 ELSE 31

\* int() of a string of decimal digits
RECURSIVE ParseInt(_, _)
ParseInt(s, acc) ==
    IF Len(s) = 0 THEN acc
    ELSE ParseInt(SubSeq(s, 2, Len(s)),
                  10 * acc + (CHOOSE n \in 0..9 : Digit(n) = CharAt(s, 1)))

\* month, day = birthday_date.split('-') of a MM-DD text
SplitMonthDay(birthday_date) ==
    LET dash == CHOOSE i \in 1..Len(birthday_date) : CharAt(birthday_date, i) = "-"
    IN [month |-> ParseInt(SubSeq(birthday_date, 1, dash - 1), 0),
        day |-> ParseInt(SubSeq(birthday_date, dash + 1, Len(birthday_date)), 0)]

\* the event _create_birthday_event passes to calendar.add_event, as a list of
\* at most one element: datetime(current_year, month, day) raises ValueError
\* for a day the month does not have in that year, and the except clause then
\* returns False before add_event is reached
_create_birthday_event(current_year, contact_name, birthday_date) ==
    LET md == SplitMonthDay(birthday_date)
    IN IF md.month \in 1..12 /\ md.day \in 1..DaysInMonth(current_year, md.month)
       THEN <<[summary |-> "Anniversaire de " \o contact_name,
               dtstart |-> Date(current_year, md.month, md.day),
               dtend |-> Date(current_year, md.month, md.day),
               all_day |-> TRUE,
               rrule |-> "FREQ=YEARLY",
               trigger |-> "-P1D"]>>
       ELSE <<>>

\* "for contact_name, birthday_date in missing_birthdays": the add_event calls
\* made, each with whether it raised (raised: the calls the server refuses)
RECURSIVE CreationLoop(_, _, _, _)
CreationLoop(current_year, missing_birthdays, raised, k) ==
    IF k > Len(missing_birthdays) THEN <<>>
    ELSE LET made == _create_birthday_event(current_year, missing_birthdays[k].name,
                                            missing_birthdays[k].date)
         IN [i \in 1..Len(made) |->
                [entry |-> k, event |-> made[i], raised |-> k \in raised]]
            \o CreationLoop(current_year, missing_birthdays, raised, k + 1)

-----------------------------------------------------------------------------
(* File mode                                                               *)

\* vCard blocks (BEGIN:VCARD to END:VCARD) with the newlines that follow them
\* in the file; the second block differs from the first by one character
VcardPool ==
    {[block |-> b, newlines |-> n] :
        b \in {"BEGIN:VCARD\nFN:Ann Lee\nEND:VCARD",
               "BEGIN:VCARD\nFN:Ann Lea\nEND:VCARD",
               "BEGIN:VCARD\nFN:Ann Lee\nTEL:1\nEND:VCARD"},
        n \in {"\n", "\n\n"}}

\* pieces of a file that holds other text than newline-terminated blocks
PiecePool ==
    {"BEGIN:VCARD\nFN:Ann Lee\nEND:VCARD",
     "BEGIN:VCARD\nFN:Ann Lea\nEND:VCARD",
     "\n",
     "NOTE"}

\* f.read() of a file written as these pieces, one after the other
RECURSIVE FileText(_)
FileText(pieces) ==
    IF pieces = <<>> THEN ""
    ELSE Head(pieces) \o FileText(Tail(pieces))

\* f.read() of the input file
RECURSIVE FileContent(_)
FileContent(blocks) ==
    IF blocks = <<>> THEN ""
    ELSE Head(blocks).block \o Head(blocks).newlines \o FileContent(Tail(blocks))

MinOf(S) == CHOOSE x \in S : \A y \in S : x <= y

\* "^" under re.M: the start of the text or just after a newline
AtLineStart(content, i) == i = 1 \/ CharAt(content, i - 1) = "\n"

HasAt(content, i, word) ==
    /\ i + Len(word) - 1 <= Len(content)
    /\ SubSeq(content, i, i + Len(word) - 1) = word

\* rec.search(content, position) for
\* (^BEGIN:VCARD.*?^END:VCARD)([\x0d\x0a]*) with re.M | re.S; positions count
\* from 1, end1 and end2 are the positions after group 1 and group 2
SearchVcard(content, position) ==
    LET begins == {i \in position..Len(content) :
                      AtLineStart(content, i) /\ HasAt(content, i, "BEGIN:VCARD")}
        ends(i) == {j \in (i + Len("BEGIN:VCARD"))..Len(content) :
                       AtLineStart(content, j) /\ HasAt(content, j, "END:VCARD")}
    IN IF begins = {} \/ ends(MinOf(begins)) = {}
       THEN [found |-> FALSE, start |-> 0, end1 |-> 0, end2 |-> 0]
       ELSE LET start == MinOf(begins)
                end1 == MinOf(ends(start)) + Len("END:VCARD")
                end2 == MinOf({k \in end1..(Len(content) + 1) :
                                 k = Len(content) + 1
                                 \/ CharAt(content, k) \notin {"\r", "\n"}})
            IN [found |-> TRUE, start |-> start, end1 |-> end1, end2 |-> end2]

\* the while loop with a vCard kept or dropped by its text and its newlines
RECURSIVE WriteLoopComparingNewlines(_, _, _, _, _)
WriteLoopComparingNewlines(content, position, unique_contacts, written, duplicates_removed) ==
    LET match == SearchVcard(content, position)
    IN IF ~match.found
       THEN [output |-> written \o SubSeq(content, position, Len(content)),
             duplicates_removed |-> duplicates_removed]
       ELSE LET before == SubSeq(content, position, match.start - 1)
                vcard_content == SubSeq(content, match.start, match.end1 - 1)
                newlines == SubSeq(content, match.end1, match.end2 - 1)
            IN IF (vcard_content \o newlines) \notin unique_contacts
               THEN WriteLoopComparingNewlines(content, match.end2,
                              unique_contacts \cup {vcard_content \o newlines},
                              written \o before \o vcard_content \o newlines,
                              duplicates_removed)
               ELSE WriteLoopComparingNewlines(content, match.end2, unique_contacts,
                              written \o before, duplicates_removed + 1)

\* the while loop of process_vcf_file
RECURSIVE WriteLoop(_, _, _, _, _)
WriteLoop(content, position, unique_contacts, written, duplicates_removed) ==
    LET match == SearchVcard(content, position)
    IN IF ~match.found
       THEN [output |-> written \o SubSeq(content, position, Len(content)),
             duplicates_removed |-> duplicates_removed]
       ELSE LET before == SubSeq(content, position, match.start - 1)
                vcard_content == SubSeq(content, match.start, match.end1 - 1)
                newlines == SubSeq(content, match.end1, match.end2 - 1)
            IN IF vcard_content \notin unique_contacts
               THEN WriteLoop(content, match.end2,
                              unique_contacts \cup {vcard_content},
                              written \o before \o vcard_content \o newlines,
                              duplicates_removed)
               ELSE WriteLoop(content, match.end2, unique_contacts,
                              written \o before, duplicates_removed + 1)

-----------------------------------------------------------------------------
(* Retrieval                                                               *)

\* an object listed by the server: the text its data accessors give ("" when
\* they give nothing), whether vobject.readOne accepts the text, and the
\* values of the TEL properties of the parsed card
ObjectPool ==
    {[data |-> "", parses |-> FALSE, tel |-> <<>>],
     [data |-> "BEGIN:VCARD", parses |-> FALSE, tel |-> <<>>],
     [data |-> "BEGIN:VCARD\nFN:Ann Lee\nTEL:+33 (0)6-12\nEND:VCARD", parses |-> TRUE,
      tel |-> <<"+33 (0)6-12">>],
     [data |-> "BEGIN:VCARD\nFN:Ann Lea\nTEL:06+12\nEND:VCARD", parses |-> TRUE,
      tel |-> <<"06+12">>]}

\* re.sub(r'[^\d+]', '', value): the characters that are not a digit or "+"
\* are removed
RECURSIVE phone_clean(_)
phone_clean(value) ==
    IF value = "" THEN ""
    ELSE (IF InStr(CharAt(value, 1), DIGITS \o "+") THEN CharAt(value, 1) ELSE "")
         \o phone_clean(SubSeq(value, 2, Len(value)))

\* "for tel in parsed_vcard.contents.get('tel', [])"
Phones(tel) == [k \in 1..Len(tel) |-> phone_clean(tel[k])]

\* a retrieval loop that gives up at the first object it cannot read
RECURSIVE ParseLoopStoppingAtFailure(_, _)
ParseLoopStoppingAtFailure(listed, i) ==
    IF i > Len(listed) THEN <<>>
    ELSE IF listed[i].data = "" \/ ~listed[i].parses THEN <<>>
         ELSE <<[uid |-> i, raw_data |-> listed[i].data, phones |-> Phones(listed[i].tel)]>>
              \o ParseLoopStoppingAtFailure(listed, i + 1)

\* "for contact in contacts: try: ... except: continue": an object without
\* data is passed over, one whose text readOne rejects raises inside the try
\* and is passed over too; uid is the listing position of the object
RECURSIVE ParseLoop(_, _)
ParseLoop(listed, i) ==
    IF i > Len(listed) THEN <<>>
    ELSE IF listed[i].data = "" THEN ParseLoop(listed, i + 1)
         ELSE IF ~listed[i].parses THEN ParseLoop(listed, i + 1)
              ELSE <<[uid |-> i, raw_data |-> listed[i].data,
                      phones |-> Phones(listed[i].tel)]>>
                   \o ParseLoop(listed, i + 1)

get_all_contacts(listed) == ParseLoop(listed, 1)

get_all_events(listed) == ParseLoop(listed, 1)

InitCommon ==
    /\ fuzzy \in BOOLEAN
    /\ pc = "start"
    /\ threshold = DefaultThreshold
    /\ dryRun = TRUE
    /\ fetched = <<>>
    /\ groups = <<>>
    /\ survivors = <<>>
    /\ deleteCalls = <<>>
    /\ deleteFailed = {}
    /\ createCalls = <<>>
    /\ result = <<>>
    /\ classes = NoClasses
    /\ currentYear = 0
    /\ addCalls = <<>>
    /\ exitStatus = -1
    /\ fileOut = ""

\* the records on the server or in the file when main starts
InitRecords ==
    /\ InitCommon
    /\ \/ /\ run = "file"
          /\ contacts = <<>>
          /\ events = <<>>
          /\ birthdays = <<>>
          /\ vcards \in ListsUpTo(VcardPool, MaxVcards)
          /\ fileIn = FileContent(vcards)
          /\ objects = <<>>
       \/ /\ run = "text"
          /\ contacts = <<>>
          /\ events = <<>>
          /\ birthdays = <<>>
          /\ vcards = <<>>
          /\ fileIn \in {FileText(pieces) : pieces \in ListsUpTo(PiecePool, MaxPieces)}
          /\ objects = <<>>
       \/ /\ run = "fetch"
          /\ fileIn = ""
          /\ contacts = <<>>
          /\ events = <<>>
          /\ birthdays = <<>>
          /\ vcards = <<>>
          /\ objects \in ListsUpTo(ObjectPool, MaxObjects)
       \/ /\ run = "contacts"
          /\ fileIn = ""
          /\ vcards = <<>>
          /\ objects = <<>>
          /\ contacts \in ListsUpTo(ContactPool, MaxContacts)
          /\ events = <<>>
          /\ birthdays = <<>>
       \/ /\ run = "events"
          /\ fileIn = ""
          /\ vcards = <<>>
          /\ objects = <<>>
          /\ contacts = <<>>
          /\ events \in ListsUpTo(EventPool, MaxEvents)
          /\ birthdays = <<>>
       \/ /\ run = "birthdays"
          /\ fileIn = ""
          /\ vcards = <<>>
          /\ objects = <<>>
          /\ contacts = <<>>
          /\ events \in ListsUpTo(BirthdayEventPool, MaxBirthdayEvents)
          /\ birthdays \in ListsUpTo(BirthdayPool, MaxBirthdays)

\* a run without --threshold: argparse gives the default
Init ==
    /\ InitRecords
    /\ argThreshold = DefaultThreshold

\* a run with or without --threshold
InitWithThreshold ==
    /\ InitRecords
    /\ argThreshold \in ArgThresholds

\* find_duplicates(contacts, th) on the fetched address book; after a deleting
\* run, the same clustering on what is left on the server
FindDuplicates ==
    /\ run = "contacts"
    /\ \/ pc = "start" /\ threshold' \in Thresholds /\ pc' = "found"
       \/ pc = "removed" /\ ~dryRun /\ threshold' = threshold /\ pc' = "refound"
    /\ fetched' = contacts
    /\ groups' = find_duplicates(contacts, threshold')
    /\ survivors' = <<>>
    /\ contacts' = InputAfterClustering(contacts)
    /\ UNCHANGED <<run, fuzzy, events, birthdays, dryRun, deleteCalls,
                   deleteFailed, createCalls, result, classes,
                   currentYear, addCalls, argThreshold, exitStatus,
                   vcards, fileOut, fileIn, objects>>

\* choose_best_contact(duplicates), the fetched list taken as the group
ChooseBestContact ==
    /\ run = "contacts"
    /\ pc = "start"
    /\ contacts # <<>>
    /\ pc' = "chosen"
    /\ fetched' = contacts
    /\ groups' = <<Positions(contacts)>>
    /\ survivors' = <<choose_best_contact(contacts, Positions(contacts))>>
    /\ contacts' = InputAfterSelection(contacts)
    /\ UNCHANGED <<run, fuzzy, events, birthdays, threshold, dryRun,
                   deleteCalls, deleteFailed, createCalls, result, classes,
                   currentYear, addCalls, argThreshold, exitStatus,
                   vcards, fileOut, fileIn, objects>>

\* main with --type contacts once connected: remove_duplicates(dry_run), then
\* return 0. get_all_contacts returns [] when the retrieval raises
RemoveDuplicates ==
    /\ run = "contacts"
    /\ pc = "start"
    /\ dryRun' \in BOOLEAN
    /\ threshold' = DefaultThreshold
    /\ exitStatus' = 0
    /\ \E fetch_ok \in BOOLEAN :
         /\ pc' = IF fetch_ok THEN "removed" ELSE "unfetched"
         /\ fetched' = IF fetch_ok THEN contacts ELSE <<>>
    /\ LET duplicate_groups == find_duplicates(fetched', DefaultThreshold)
           total_duplicates == SumOfSizes(duplicate_groups)
           best == [g \in 1..Len(duplicate_groups) |->
                       choose_best_contact(fetched', duplicate_groups[g])]
           calls == DeleteOrder(duplicate_groups, best, 1)
       IN IF fetched' = <<>> \/ duplicate_groups = <<>>
          THEN /\ result' = <<0, 0>>
               /\ groups' = duplicate_groups
               /\ survivors' = <<>>
               /\ deleteCalls' = <<>>
               /\ deleteFailed' = {}
               /\ contacts' = contacts
          ELSE /\ groups' = duplicate_groups
               /\ survivors' = best
               /\ deleteCalls' = DeleteCallsOf(dryRun', calls)
               /\ deleteFailed' \in SUBSET Range(deleteCalls')
               /\ result' = <<total_duplicates,
                              DeletedCount(deleteCalls', deleteFailed')>>
               /\ contacts' = Remaining(contacts, Range(deleteCalls') \ deleteFailed', 1)
    /\ UNCHANGED <<run, fuzzy, events, birthdays, createCalls, classes,
                   currentYear, addCalls, argThreshold,
                   vcards, fileOut, fileIn, objects>>

FindEventDuplicates ==
    /\ run = "events"
    /\ pc = "start"
    /\ pc' = "found"
    /\ threshold' \in Thresholds
    /\ fetched' = events
    /\ groups' = find_event_duplicates(events, threshold')
    /\ survivors' = <<>>
    /\ events' = InputAfterClustering(events)
    /\ UNCHANGED <<run, fuzzy, contacts, birthdays, dryRun, deleteCalls,
                   deleteFailed, createCalls, result, classes,
                   currentYear, addCalls, argThreshold, exitStatus,
                   vcards, fileOut, fileIn, objects>>

ChooseBestEvent ==
    /\ run = "events"
    /\ pc = "start"
    /\ events # <<>>
    /\ pc' = "chosen"
    /\ fetched' = events
    /\ groups' = <<Positions(events)>>
    /\ survivors' = <<choose_best_event(events, Positions(events))>>
    /\ events' = InputAfterSelection(events)
    /\ UNCHANGED <<run, fuzzy, contacts, birthdays, threshold, dryRun,
                   deleteCalls, deleteFailed, createCalls, result, classes,
                   currentYear, addCalls, argThreshold, exitStatus,
                   vcards, fileOut, fileIn, objects>>

\* main with --type calendars once connected: remove_event_duplicates(dry_run),
\* then return 0. get_all_events returns [] when the calendar is not found
\* and skips a calendar whose retrieval raises
RemoveEventDuplicates ==
    /\ run = "events"
    /\ pc = "start"
    /\ dryRun' \in BOOLEAN
    /\ threshold' = DefaultThreshold
    /\ exitStatus' = 0
    /\ \E fetch_ok \in BOOLEAN :
         /\ pc' = IF fetch_ok THEN "removed" ELSE "unfetched"
         /\ fetched' = IF fetch_ok THEN events ELSE <<>>
    /\ LET duplicate_groups == find_event_duplicates(fetched', DefaultThreshold)
           total_duplicates == SumOfSizes(duplicate_groups)
           best == [g \in 1..Len(duplicate_groups) |->
                       choose_best_event(fetched', duplicate_groups[g])]
           calls == DeleteOrder(duplicate_groups, best, 1)
       IN IF fetched' = <<>> \/ duplicate_groups = <<>>
          THEN /\ result' = <<0, 0>>
               /\ groups' = duplicate_groups
               /\ survivors' = <<>>
               /\ deleteCalls' = <<>>
               /\ deleteFailed' = {}
               /\ events' = events
          ELSE /\ groups' = duplicate_groups
               /\ survivors' = best
               /\ deleteCalls' = DeleteCallsOf(dryRun', calls)
               /\ deleteFailed' \in SUBSET Range(deleteCalls')
               /\ result' = <<total_duplicates,
                              DeletedCount(deleteCalls', deleteFailed')>>
               /\ events' = Remaining(events, Range(deleteCalls') \ deleteFailed', 1)
    /\ UNCHANGED <<run, fuzzy, contacts, birthdays, createCalls, classes,
                   currentYear, addCalls, argThreshold,
                   vcards, fileOut, fileIn, objects>>

\* _match_birthdays_and_events(entries, events) on its own
MatchBirthdaysAndEvents ==
    /\ run = "birthdays"
    /\ pc = "start"
    /\ pc' = "matched"
    /\ fetched' = events
    /\ classes' = _match_birthdays_and_events(birthdays, events)
    /\ UNCHANGED <<run, fuzzy, contacts, events, birthdays, threshold, dryRun, groups,
                   survivors, deleteCalls, deleteFailed, createCalls, result,
                   currentYear, addCalls, argThreshold, exitStatus,
                   vcards, fileOut, fileIn, objects>>

\* an early return on the birthday entries only
NothingToSyncWithoutEntries(contacts_with_birthdays, birthday_events) ==
    contacts_with_birthdays = <<>>

\* the two early returns of sync_birthday_calendar: "if not
\* contacts_with_birthdays" and "if not birthday_events"
NothingToSync(contacts_with_birthdays, birthday_events) ==
    contacts_with_birthdays = <<>> \/ birthday_events = <<>>

\* get_calendar_by_name may find no calendar before the creation loop
SyncBirthdayCalendar ==
    /\ run = "birthdays"
    /\ pc = "start"
    /\ dryRun' \in BOOLEAN
    /\ exitStatus' = 0
    /\ \E fetch_ok \in BOOLEAN :
         /\ pc' = IF fetch_ok THEN "synced" ELSE "unfetched"
         /\ fetched' = IF fetch_ok THEN events ELSE <<>>
    /\ IF NothingToSync(birthdays, fetched')
       THEN /\ result' = <<0, 0, 0>>
            /\ classes' = NoClasses
            /\ deleteCalls' = <<>>
            /\ deleteFailed' = {}
            /\ createCalls' = <<>>
            /\ currentYear' = currentYear
            /\ addCalls' = <<>>
            /\ events' = events
       ELSE LET m == _match_birthdays_and_events(birthdays, events)
            IN /\ classes' = m
               /\ deleteCalls' = DeleteCallsOf(dryRun', EventsToDelete(m))
               /\ deleteFailed' \in SUBSET Range(deleteCalls')
               /\ \E calendar_found \in BOOLEAN :
                      createCalls' = IF dryRun' \/ ~calendar_found THEN <<>>
                                     ELSE m.missing
               /\ currentYear' \in IF createCalls' = <<>> THEN {currentYear} ELSE Years
               /\ \E raised \in SUBSET (1..Len(createCalls')) :
                      addCalls' = CreationLoop(currentYear', createCalls', raised, 1)
               /\ result' = <<Len(m.orphan),
                              DeletedCount(deleteCalls', deleteFailed'),
                              Len(SelectSeq(addCalls', LAMBDA a : ~a.raised))>>
               /\ events' = Remaining(events, Range(deleteCalls') \ deleteFailed', 1)
    /\ UNCHANGED <<run, fuzzy, contacts, birthdays, threshold, groups, survivors,
                   argThreshold,
                   vcards, fileOut, fileIn, objects>>

\* main in file mode: process_vcf_file(input_file, output_file), then return 0;
\* without vobject the ImportError it raises makes main return 1
ProcessVcfFile ==
    /\ run \in {"file", "text"}
    /\ pc = "start"
    /\ \E vobject_available \in BOOLEAN :
         IF vobject_available
         THEN LET done == WriteLoop(fileIn, 1, {}, "", 0)
              IN /\ pc' = "processed"
                 /\ fileOut' = done.output
                 /\ result' = <<done.duplicates_removed>>
                 /\ exitStatus' = 0
         ELSE /\ pc' = "refused"
              /\ fileOut' = fileOut
              /\ result' = result
              /\ exitStatus' = 1
    /\ UNCHANGED <<run, fuzzy, contacts, events, birthdays, threshold, dryRun, fetched,
                   groups, survivors, deleteCalls, deleteFailed, createCalls, classes,
                   currentYear, addCalls, argThreshold, vcards, fileIn, objects>>

\* main in file mode once more, on the same installation, with the output of
\* the run before as its input file
ProcessVcfFileAgain ==
    /\ run \in {"file", "text"}
    /\ pc = "processed"
    /\ LET done == WriteLoop(fileOut, 1, {}, "", 0)
       IN /\ pc' = "reprocessed"
          /\ fileIn' = fileOut
          /\ fileOut' = done.output
          /\ result' = <<done.duplicates_removed>>
          /\ exitStatus' = 0
    /\ UNCHANGED <<run, fuzzy, contacts, events, birthdays, threshold, dryRun, fetched,
                   groups, survivors, deleteCalls, deleteFailed, createCalls, classes,
                   currentYear, addCalls, argThreshold, vcards, objects>>

\* get_all_contacts() on the objects the address book lists
GetAllContacts ==
    /\ run = "fetch"
    /\ pc = "start"
    /\ pc' = "contacts_fetched"
    /\ fetched' = get_all_contacts(objects)
    /\ UNCHANGED <<run, fuzzy, contacts, events, birthdays, threshold, dryRun, groups,
                   survivors, deleteCalls, deleteFailed, createCalls, result, classes,
                   currentYear, addCalls, argThreshold, exitStatus, vcards, fileOut,
                   fileIn, objects>>

\* get_all_events(calendar_name) on the objects the calendar lists
GetAllEvents ==
    /\ run = "fetch"
    /\ pc = "start"
    /\ pc' = "events_fetched"
    /\ fetched' = get_all_events(objects)
    /\ UNCHANGED <<run, fuzzy, contacts, events, birthdays, threshold, dryRun, groups,
                   survivors, deleteCalls, deleteFailed, createCalls, result, classes,
                   currentYear, addCalls, argThreshold, exitStatus, vcards, fileOut,
                   fileIn, objects>>

\* main returns 1 when connect() of the manager it needs fails
ConnectFails ==
    /\ run \notin {"file", "text", "fetch"}
    /\ pc = "start"
    /\ pc' = "refused"
    /\ exitStatus' = 1
    /\ UNCHANGED <<run, fuzzy, contacts, events, birthdays, threshold, dryRun, fetched,
                   groups, survivors, deleteCalls, deleteFailed, createCalls, result,
                   classes, currentYear, addCalls, argThreshold,
                   vcards, fileOut, fileIn, objects>>

Next ==
    \/ FindDuplicates
    \/ ChooseBestContact
    \/ RemoveDuplicates
    \/ FindEventDuplicates
    \/ ChooseBestEvent
    \/ RemoveEventDuplicates
    \/ MatchBirthdaysAndEvents
    \/ SyncBirthdayCalendar
    \/ ConnectFails
    \/ ProcessVcfFile
    \/ ProcessVcfFileAgain
    \/ GetAllContacts
    \/ GetAllEvents

Spec == Init /\ [][Next]_vars

SpecWithThreshold == InitWithThreshold /\ [][Next]_vars

-----------------------------------------------------------------------------
(* Properties                                                              *)

\* C1: in dry-run mode remove_duplicates, remove_event_duplicates and
\* sync_birthday_calendar pass nothing to delete or create, leave the server's
\* records as fetched, and return 0 as deleted (and created) count.
DryRunNeverDeletesOrCreates ==
    (pc \in {"removed", "synced"} /\ dryRun) =>
        /\ deleteCalls = <<>>
        /\ createCalls = <<>>
        /\ result[2] = 0
        /\ (run = "birthdays" => result[3] = 0)
        /\ (IF run = "contacts" THEN contacts ELSE events) = fetched

\* a dry-run synchronisation that found an orphan to delete and an entry to create
DryRunWithPlannedChanges ==
    /\ run = "birthdays"
    /\ pc = "synced"
    /\ dryRun
    /\ classes.orphan # <<>>
    /\ classes.missing # <<>>

\* C2: in a non-dry-run sync_birthday_calendar every event passed to
\* delete_event is classified OrphanEvent (birthday-typed), and none is
\* classified Matched or NonBirthday.
SyncDeletesOnlyOrphans ==
    (run = "birthdays" /\ pc = "synced" /\ ~dryRun) =>
        \A c \in 1..Len(deleteCalls) :
            /\ deleteCalls[c] \in Range(classes.orphan)
            /\ deleteCalls[c] \notin Range(classes.matched) \cup Range(classes.non_birthday)
            /\ IsBirthdayTitle(fetched[deleteCalls[c]].title)

\* a synchronisation that deletes an orphan while a non-birthday event is in
\* the calendar
SyncDeletesBesideNonBirthday ==
    /\ run = "birthdays"
    /\ pc = "synced"
    /\ ~dryRun
    /\ deleteCalls # <<>>
    /\ classes.non_birthday # <<>>

\* C3: after clustering (find_duplicates, _find_duplicates_simple,
\* find_event_duplicates) every returned group has at least two members, all
\* of them distinct records of the input, and no record is in two groups: with
\* the records of no group counted as singletons, every record is in exactly
\* one group.
GroupsArePartition ==
    (run \in {"contacts", "events"} /\ pc \in {"found", "refound", "removed"}) =>
        /\ \A g \in 1..Len(groups) :
               /\ Len(groups[g]) >= 2
               /\ Range(groups[g]) \subseteq 1..Len(fetched)
               /\ Cardinality(Range(groups[g])) = Len(groups[g])
        /\ \A g, h \in 1..Len(groups) :
               g # h => Range(groups[g]) \cap Range(groups[h]) = {}
        /\ \A i \in 1..Len(fetched) :
               Cardinality({g \in 1..Len(groups) : i \in Range(groups[g])}) <= 1

\* three records clustered into one group of two and one record left alone
OneGroupAndOneSingleton ==
    /\ run = "contacts"
    /\ pc = "found"
    /\ Len(fetched) = 3
    /\ Len(groups) = 1
    /\ Len(groups[1]) = 2

\* C4: any two records of the input that share a normalized email are in the
\* same returned group, with the fuzzy scorer and with the fallback.
SharedEmailSameGroup ==
    (run = "contacts" /\ pc = "found") =>
        \A i, j \in 1..Len(fetched) :
            (i # j /\ Range(fetched[i].emails) \cap Range(fetched[j].emails) # {}) =>
                \E g \in 1..Len(groups) : {i, j} \subseteq Range(groups[g])

\* C5: with the input in order A, B, C where A matches B, B matches C and A
\* does not match C, find_duplicates puts A and B in the first group and
\* leaves C out of it; when these are all the records the result is the one
\* group {A, B}.
StarNotTransitive ==
    (/\ run = "contacts"
     /\ pc = "found"
     /\ fuzzy
     /\ Len(fetched) >= 3
     /\ IsDuplicatePair(fetched[1], fetched[2], threshold)
     /\ IsDuplicatePair(fetched[2], fetched[3], threshold)
     /\ ~IsDuplicatePair(fetched[1], fetched[3], threshold)) =>
        /\ groups # <<>>
        /\ groups[1][1] = 1
        /\ 2 \in Range(groups[1])
        /\ 3 \notin Range(groups[1])
        /\ (Len(fetched) = 3 => groups = << <<1, 2>> >>)

\* the chain A ~ B ~ C with A and C apart, clustered as {A, B}
ChainClusteredAsStar ==
    /\ run = "contacts"
    /\ pc = "found"
    /\ fuzzy
    /\ Len(fetched) = 3
    /\ IsDuplicatePair(fetched[1], fetched[2], threshold)
    /\ IsDuplicatePair(fetched[2], fetched[3], threshold)
    /\ ~IsDuplicatePair(fetched[1], fetched[3], threshold)
    /\ groups = << <<1, 2>> >>

\* C6: after a non-dry-run remove_duplicates whose deletions all succeed,
\* find_duplicates on the surviving records with the same threshold returns no
\* group.
RerunFindsNoGroups ==
    (run = "contacts" /\ pc = "refound" /\ deleteFailed = {}) => groups = <<>>

FirstOfBestWins ==
    (run \in {"contacts", "events"} /\ pc \in {"chosen", "removed"}) =>
        LET score(i) ==
                IF run = "contacts"
                THEN 2 * Len(fetched[i].emails) + 2 * Len(fetched[i].phones)
                     + (IF fetched[i].full_name # "" THEN 5 ELSE 0) + fetched[i].lines
                ELSE Len(fetched[i].description) + 2 * Len(fetched[i].title)
                     + 5 * fetched[i].lines + 3 * fetched[i].props
        IN \A g \in 1..Len(survivors) :
               LET d == groups[g]
                   best == {k \in 1..Len(d) : \A m \in 1..Len(d) : score(d[m]) <= score(d[k])}
                   first == CHOOSE k \in best : \A m \in best : k <= m
               IN /\ survivors[g] = d[first]
                  /\ (Len(d) = 1 => survivors[g] = d[1])

\* two different events of equal score, the first one elected
TieElectsFirst ==
    /\ run = "events"
    /\ pc = "chosen"
    /\ Len(fetched) = 2
    /\ fetched[1] # fetched[2]
    /\ fetched[1].title = fetched[2].title
    /\ fetched[1].description = fetched[2].description
    /\ fetched[1].lines = fetched[2].lines
    /\ fetched[1].props = fetched[2].props
    /\ survivors = <<1>>

\* C9: a birthday-typed event for which some entry of the input sequence has a
\* name that hits its candidate name and a MM-DD equal to the event's, or whose
\* MM-DD cannot be extracted, is classified Matched and not OrphanEvent.
EveryEntryIsCompared ==
    (run = "birthdays" /\ pc = "matched") =>
        \A i \in 1..Len(fetched) :
            (/\ IsBirthdayTitle(fetched[i].title)
             /\ \E e \in 1..Len(birthdays) :
                    /\ IsNameHit(CandidateName(fetched[i].title),
                                 LowerName(birthdays[e].name))
                    /\ ComparisonDate(fetched[i].start_date) \in {"", birthdays[e].date}) =>
                (i \in Range(classes.matched) /\ i \notin Range(classes.orphan))

\* C10: an event classified Matched is birthday-typed and is matched with an
\* entry whose name hits its candidate name and whose MM-DD equals the event's
\* unless the event's cannot be extracted; that entry is the first one in
\* iteration order to satisfy this.
MatchedOnlyByRule ==
    (run = "birthdays" /\ pc = "matched") =>
        LET items == DictItems(birthdays, <<>>)
        IN /\ Len(classes.matched_with) = Len(classes.matched)
           /\ \A m \in 1..Len(classes.matched) :
                  LET event == fetched[classes.matched[m]]
                      with == classes.matched_with[m]
                      date == ComparisonDate(event.start_date)
                      name == CandidateName(event.title)
                      Satisfies(k) == /\ IsNameHit(name, items[k].key)
                                      /\ (date = "" \/ date = items[k].date)
                  IN /\ IsBirthdayTitle(event.title)
                     /\ \E e \in 1..Len(birthdays) :
                            /\ birthdays[e].name = with.name
                            /\ birthdays[e].date = with.date
                            /\ IsNameHit(name, LowerName(birthdays[e].name))
                            /\ (date = "" \/ date = birthdays[e].date)
                     /\ \E k \in 1..Len(items) :
                            /\ items[k] = with
                            /\ Satisfies(k)
                            /\ \A j \in 1..(k - 1) : ~Satisfies(j)

\* an event whose name hits both entries, matched with the second because the
\* first has another date
SecondEntryMatchedByDate ==
    /\ run = "birthdays"
    /\ pc = "matched"
    /\ Len(birthdays) = 2
    /\ Len(fetched) = 1
    /\ LowerName(birthdays[1].name) # LowerName(birthdays[2].name)
    /\ IsNameHit(CandidateName(fetched[1].title), LowerName(birthdays[1].name))
    /\ classes.matched = <<1>>
    /\ classes.matched_with[1].name = birthdays[2].name
    /\ classes.matched_with[1].date # birthdays[1].date

\* C11: an entry is reported MissingBirthday exactly when the first pass
\* matched no event with it (name hit plus date rule).
MissingIffUnmatched ==
    (run = "birthdays" /\ pc = "matched") =>
        \A e \in 1..Len(birthdays) :
            (birthdays[e] \in Range(classes.missing)) <=>
                ~(\E m \in 1..Len(classes.matched_with) :
                      /\ classes.matched_with[m].name = birthdays[e].name
                      /\ classes.matched_with[m].date = birthdays[e].date)

\* C12: every event given to _match_birthdays_and_events is in exactly one of
\* the lists NonBirthday, Matched and OrphanEvent, exactly once, and the
\* events of Matched and OrphanEvent are the birthday-typed ones.
EventClassesPartition ==
    (run = "birthdays" /\ pc = "matched") =>
        LET Count(list, i) == Cardinality({k \in 1..Len(list) : list[k] = i})
        IN /\ Range(classes.matched) \cup Range(classes.orphan)
                  \cup Range(classes.non_birthday) = 1..Len(fetched)
           /\ \A i \in 1..Len(fetched) :
                  /\ Count(classes.matched, i) + Count(classes.orphan, i)
                         + Count(classes.non_birthday, i) = 1
                  /\ (i \in Range(classes.non_birthday)) <=>
                         ~IsBirthdayTitle(fetched[i].title)

\* two events, one matched and one excluded by a keyword
MatchedBesideNonBirthday ==
    /\ run = "birthdays"
    /\ pc = "matched"
    /\ Len(fetched) = 2
    /\ classes.matched # <<>>
    /\ classes.non_birthday # <<>>

\* C13: an event whose title contains an exclusion keyword, whatever the case
\* of its letters, is NonBirthday even when it contains an inclusion keyword;
\* any other event is birthday-typed exactly when its title contains an
\* inclusion keyword.
ExclusionKeywordsFirst ==
    (run = "birthdays" /\ pc = "matched") =>
        \A i \in 1..Len(fetched) :
            LET title == lower(fetched[i].title)
                excluded == \E k \in 1..Len(non_birthday_keywords) :
                                Contains(non_birthday_keywords[k], title)
                included == \E k \in 1..Len(birthday_keywords) :
                                Contains(birthday_keywords[k], title)
                typed == i \in Range(classes.matched) \cup Range(classes.orphan)
            IN /\ excluded => (i \in Range(classes.non_birthday) /\ ~typed)
               /\ ~excluded => (typed <=> included)
               /\ ~excluded => ((i \in Range(classes.non_birthday)) <=> ~included)

\* an event with an inclusion and an exclusion keyword in its title, classified
\* NonBirthday
ExcludedDespiteInclusion ==
    /\ run = "birthdays"
    /\ pc = "matched"
    /\ Len(fetched) = 1
    /\ Contains("anniversaire", lower(fetched[1].title))
    /\ Contains("surprise", lower(fetched[1].title))
    /\ classes.non_birthday = <<1>>

\* C14: in a non-dry-run synchronisation whose calendar is found and whose
\* writes all succeed, every missing entry (name, MM-DD) gets one all-day
\* yearly event written, dated in the current year at that month and day, and
\* the created count is the number of missing entries -- 02-29 included.
EveryMissingEntryIsCreated ==
    (/\ run = "birthdays" /\ pc = "synced" /\ ~dryRun
     /\ createCalls = classes.missing
     /\ \A a \in 1..Len(addCalls) : ~addCalls[a].raised) =>
        /\ result[3] = Len(classes.missing)
        /\ Len(addCalls) = Len(classes.missing)
        /\ \A k \in 1..Len(addCalls) :
              /\ addCalls[k].entry = k
              /\ addCalls[k].event.all_day
              /\ addCalls[k].event.rrule = "FREQ=YEARLY"
              /\ DatePart(addCalls[k].event.dtstart)
                    = FourDigits(currentYear) \o "-" \o classes.missing[k].date

\* C15: a run started with a --threshold that is not in 0..100 is rejected
\* before any clustering: it fetches nothing, clusters nothing, deletes
\* nothing and main reports a failure (a non-zero exit status).
InvalidThresholdRejected ==
    (run \in {"contacts", "events"} /\ exitStatus # -1 /\ argThreshold \notin 0..100) =>
        /\ exitStatus # 0
        /\ fetched = <<>>
        /\ groups = <<>>
        /\ deleteCalls = <<>>

\* C16: the clustering of a deduplication run compares the fuzzy ratio with
\* the --threshold value of the run: the groups of the run are those of
\* find_duplicates / find_event_duplicates at args.threshold.
RunClustersAtArgThreshold ==
    (/\ run \in {"contacts", "events"} /\ pc = "removed" /\ fuzzy
     /\ argThreshold \in 0..100) =>
        groups = IF run = "contacts" THEN find_duplicates(fetched, argThreshold)
                 ELSE find_event_duplicates(fetched, argThreshold)

\* C20: a run whose retrieval failed is reported as a failure: its result and
\* main's exit status are not both those of a run that fetched the records
\* and found no duplicate (all counts 0, exit status 0).
FetchFailureIsSurfaced ==
    (pc = "unfetched" /\ (IF run = "contacts" THEN contacts ELSE events) # <<>>) =>
        ~(/\ result = (IF run = "birthdays" THEN <<0, 0, 0>> ELSE <<0, 0>>)
          /\ exitStatus = 0)

\* C17: _are_duplicates(a, b, threshold) is true iff a and b share an email, or
\* share a phone, or both have a non-empty trimmed name and the ratio of the
\* case-folded names is at least the threshold; with no shared email, no
\* shared phone and an empty name on one side it is false.
AreDuplicatesIffRule ==
    (run = "contacts" /\ pc = "found" /\ fuzzy) =>
        \A i, j \in 1..Len(fetched) :
            LET a == fetched[i]
                b == fetched[j]
                shared_email == \E x \in 1..Len(a.emails), y \in 1..Len(b.emails) :
                                    a.emails[x] = b.emails[y]
                shared_phone == \E x \in 1..Len(a.phones), y \in 1..Len(b.phones) :
                                    a.phones[x] = b.phones[y]
                named == NameKey(a.full_name) # "" /\ NameKey(b.full_name) # ""
            IN /\ IsDuplicatePair(a, b, threshold) <=>
                     \/ shared_email
                     \/ shared_phone
                     \/ named /\ NameRatio(a.full_name, b.full_name) >= threshold
               /\ (~shared_email /\ ~shared_phone /\ ~named) =>
                     ~IsDuplicatePair(a, b, threshold)

\* two records with no email and no phone in common grouped by their names at
\* a ratio equal to the threshold, beside a record whose name is blank
DuplicatesAtThresholdByName ==
    /\ run = "contacts"
    /\ pc = "found"
    /\ fuzzy
    /\ threshold = 100
    /\ Len(fetched) = 3
    /\ fetched[1].emails = <<>>
    /\ fetched[1].phones = <<>>
    /\ fetched[1] # fetched[2]
    /\ strip(fetched[3].full_name) = ""
    /\ groups = <<<<1, 2>>>>

\* C18: without the fuzzy scorer, two records that are in no email group and
\* have the same non-empty lower-cased trimmed full name are in the same
\* group, and every group is one of records sharing an email or of records
\* with the identical lower-cased trimmed name.
FallbackGroupsByEmailThenName ==
    (run = "contacts" /\ pc = "found" /\ ~fuzzy) =>
        LET shares_email(g) ==
                \E e \in Range(fetched[g[1]].emails) :
                    e # "" /\ \A m \in Range(g) : e \in Range(fetched[m].emails)
            shares_name(g) ==
                /\ NameKey(fetched[g[1]].full_name) # ""
                /\ \A m \in Range(g) :
                       NameKey(fetched[m].full_name) = NameKey(fetched[g[1]].full_name)
            in_email_group(i) ==
                \E g \in 1..Len(groups) : i \in Range(groups[g]) /\ shares_email(groups[g])
        IN /\ \A i, j \in 1..Len(fetched) :
                 (/\ i # j
                  /\ ~in_email_group(i) /\ ~in_email_group(j)
                  /\ NameKey(fetched[i].full_name) # ""
                  /\ NameKey(fetched[i].full_name) = NameKey(fetched[j].full_name)) =>
                     \E g \in 1..Len(groups) : {i, j} \subseteq Range(groups[g])
           /\ \A g \in 1..Len(groups) : shares_email(groups[g]) \/ shares_name(groups[g])

FailedDeleteIsPerRecord ==
    (run \in {"contacts", "events"} /\ pc = "removed" /\ ~dryRun) =>
        /\ result[2] = Cardinality({c \in 1..Len(deleteCalls) :
                                       deleteCalls[c] \notin deleteFailed})
        /\ exitStatus = 0
        /\ \A g \in 1..Len(groups) :
              \A m \in Range(groups[g]) :
                  m # survivors[g] => m \in Range(deleteCalls)

\* the first delete of a group of three fails and the second succeeds
FirstDeleteFailsSecondSucceeds ==
    /\ run = "contacts"
    /\ pc = "removed"
    /\ ~dryRun
    /\ Len(groups) = 1
    /\ Len(deleteCalls) = 2
    /\ deleteFailed = {deleteCalls[1]}
    /\ result = <<3, 1>>

\* C22: get_all_contacts and get_all_events return, in listing order, exactly
\* the objects that have data and parse, wherever the objects without data
\* or with unreadable data are and however many they are.
RetrievalSkipsOnlyFailingObjects ==
    (run = "fetch" /\ pc \in {"contacts_fetched", "events_fetched"}) =>
        LET good == {i \in 1..Len(objects) : objects[i].data # "" /\ objects[i].parses}
        IN /\ Len(fetched) = Cardinality(good)
           /\ \A k \in 1..Len(fetched) :
                 /\ fetched[k].uid \in good
                 /\ fetched[k].raw_data = objects[fetched[k].uid].data
           /\ \A k, l \in 1..Len(fetched) : k < l => fetched[k].uid < fetched[l].uid

\* an unreadable object first, a readable one second, one without data last
ReadableObjectBetweenFailures ==
    /\ run = "fetch"
    /\ pc = "contacts_fetched"
    /\ Len(objects) = 3
    /\ objects[1].data # "" /\ ~objects[1].parses
    /\ objects[2].parses
    /\ objects[3].data = ""
    /\ Len(fetched) = 1
    /\ fetched[1].uid = 2

PhoneIsDigitsWithLeadingPlus ==
    (run = "fetch" /\ pc = "contacts_fetched") =>
        \A k \in 1..Len(fetched) :
            \A p \in 1..Len(fetched[k].phones) :
                LET phone == fetched[k].phones[p]
                IN \A c \in 1..Len(phone) :
                       \/ InStr(CharAt(phone, c), DIGITS)
                       \/ c = 1 /\ CharAt(phone, c) = "+"

DeleteOncePerNonSurvivor ==
    (run \in {"contacts", "events"} /\ pc = "removed" /\ ~dryRun) =>
        LET after == IF run = "contacts" THEN contacts ELSE events
            to_delete == {m \in 1..Len(fetched) :
                             \E g \in 1..Len(groups) :
                                 m \in Range(groups[g]) /\ m # survivors[g]}
            times(m) == Cardinality({c \in 1..Len(deleteCalls) : deleteCalls[c] = m})
            kept == SelectSeq([i \in 1..Len(fetched) |-> i], LAMBDA i : i \notin to_delete)
        IN /\ \A m \in 1..Len(fetched) : times(m) = (IF m \in to_delete THEN 1 ELSE 0)
           /\ Range(deleteCalls) \subseteq 1..Len(fetched)
           /\ deleteFailed = {} =>
                 /\ after = [k \in 1..Len(kept) |-> fetched[kept[k]]]
                 /\ \A g \in 1..Len(groups) :
                       Range(groups[g]) \cap Range(kept) = {survivors[g]}

\* a group of two and a record of no group: one delete, two records left
OneDeletedBesideUngrouped ==
    /\ run = "contacts"
    /\ pc = "removed"
    /\ ~dryRun
    /\ Len(fetched) = 3
    /\ Len(groups) = 1
    /\ Len(groups[1]) = 2
    /\ Len(deleteCalls) = 1
    /\ deleteFailed = {}
    /\ Len(contacts) = 2

\* C27: a removal run returns (found, deleted) where found is the number of
\* members of all groups together and 0 <= deleted <= found - number of
\* groups; every group has more than one member, and found is 0 exactly when
\* there is no group, which is the case when nothing was retrieved.
FoundAndDeletedCounts ==
    (run \in {"contacts", "events"} /\ pc \in {"removed", "unfetched"}) =>
        LET members == {<<g, k>> \in (1..Len(groups)) \X (1..Len(fetched)) :
                           k <= Len(groups[g])}
        IN /\ \A g \in 1..Len(groups) :
                 Len(groups[g]) > 1 /\ Len(groups[g]) <= Len(fetched)
           /\ result[1] = Cardinality(members)
           /\ 0 <= result[2]
           /\ result[2] <= result[1] - Len(groups)
           /\ (result[1] = 0) <=> (groups = <<>>)
           /\ fetched = <<>> => result = <<0, 0>>
           /\ dryRun => result[2] = 0

\* a group of three of which one delete fails: found 3, deleted 1
ThreeFoundOneDeleted ==
    /\ run \in {"contacts", "events"}
    /\ pc = "removed"
    /\ ~dryRun
    /\ Len(groups) = 1
    /\ Len(groups[1]) = 3
    /\ Cardinality(deleteFailed) = 1
    /\ result = <<3, 1>>

\* C28: a synchronisation whose list of birthday entries is empty, or whose
\* list of fetched events is empty, deletes nothing, creates nothing and
\* returns (0, 0, 0), in a dry run or not, although with no event every entry
\* has no matching event.
EmptySideSyncsNothing ==
    (/\ run = "birthdays"
     /\ pc \in {"synced", "unfetched"}
     /\ (birthdays = <<>> \/ fetched = <<>>)) =>
        /\ result = <<0, 0, 0>>
        /\ deleteCalls = <<>>
        /\ createCalls = <<>>
        /\ addCalls = <<>>
        /\ classes = NoClasses

\* a deleting run with two entries and an empty calendar
EntriesBesideEmptyCalendar ==
    /\ run = "birthdays"
    /\ pc = "synced"
    /\ ~dryRun
    /\ Len(birthdays) = 2
    /\ events = <<>>
    /\ fetched = <<>>
    /\ result = <<0, 0, 0>>
    /\ _match_birthdays_and_events(birthdays, events).missing # <<>>

\* C29: every group returned by find_duplicates or find_event_duplicates is a
\* star: its first member, the anchor, has the smallest input index of the
\* group; the members are in increasing input index and each other member is
\* a duplicate of the anchor; and a record after the anchor that is a
\* duplicate of the anchor is outside the group only when a group opened
\* before the anchor holds it.
GroupsAreStars ==
    (run \in {"contacts", "events"} /\ pc = "found") =>
        LET match(i, j) ==
                IF run = "contacts"
                THEN IsDuplicatePair(fetched[i], fetched[j], threshold)
                ELSE IsEventDuplicatePair(fetched[i], fetched[j], threshold)
        IN \A g \in 1..Len(groups) :
               LET members == groups[g]
                   anchor == members[1]
               IN /\ \A k \in 2..Len(members) :
                        members[k - 1] < members[k] /\ match(anchor, members[k])
                  /\ \A j \in (anchor + 1)..Len(fetched) :
                        (match(anchor, j) /\ j \notin Range(members)) =>
                            \E h \in 1..Len(groups) :
                                /\ groups[h][1] < anchor
                                /\ j \in Range(groups[h])

\* C30: file mode is idempotent: process_vcf_file applied to its own output
\* writes an output identical to that input and returns 0, for a file made
\* of vCard blocks and of text between them.
FileModeIsIdempotent ==
    (run \in {"file", "text"} /\ pc = "reprocessed") =>
        /\ fileOut = fileIn
        /\ result = <<0>>

====
